---- MODULE Spec2Model ----
(***************************************************************************)
(* Model of the dealership catalogue application (Kozevnikov_Rabota/app.py *)
(* over the database seeded by Kozevnikov_Rabota/init_db.py).              *)
(*                                                                         *)
(* Text values are sequences of characters, one character per element, so  *)
(* that strip(), lower(), capitalize(), int() and SQLite's LOWER and LIKE  *)
(* are computed character by character.  A character outside ASCII is      *)
(* written by its code point ("U+041B" is the Cyrillic capital EL).        *)
(***************************************************************************)
EXTENDS Integers, Sequences, FiniteSets, TLC

\* ------------------------------------------------------------------ bounds
MaxNewUsers == 2
MaxNewCars == 2
MaxNewLeads == 1
MaxNewEvents == 2
MaxClock == 1

\* ------------------------------------------------------------ Python values
\* None for a text value: a one-element sequence holding a token that is no
\* character, so that it differs from every string, the empty one included.
None == <<"None">>

\* An optional integer: Python's None or an int.
NoneInt == [isNone |-> TRUE, val |-> 0]
SomeInt(n) == [isNone |-> FALSE, val |-> n]

\* Python truthiness of an optional text (None and '' are falsy).
Truthy(s) == s # None /\ s # <<>>

\* Python truthiness of an optional integer (None and 0 are falsy).
TruthyInt(x) == ~x.isNone /\ x.val # 0

UpperAscii == <<"A","B","C","D","E","F","G","H","I","J","K","L","M",
                "N","O","P","Q","R","S","T","U","V","W","X","Y","Z">>
LowerAscii == <<"a","b","c","d","e","f","g","h","i","j","k","l","m",
                "n","o","p","q","r","s","t","u","v","w","x","y","z">>
Digits == <<"0","1","2","3","4","5","6","7","8","9">>

IndexIn(seq, c) == CHOOSE i \in 1..Len(seq) : seq[i] = c
Occurs(seq, c) == \E i \in 1..Len(seq) : seq[i] = c

\* The characters texts are written in.
Alphabet ==
    {UpperAscii[i] : i \in 1..Len(UpperAscii)} \cup {LowerAscii[i] : i \in 1..Len(LowerAscii)}
    \cup {Digits[i] : i \in 1..Len(Digits)}
    \cup {" ", "@", ".", "+", "-", "_", "%", "U+041B", "U+043B", "U+0410", "U+0430"}

\* ASCII-only case folding: what SQLite's built-in LOWER() does.
SqlLowerMap ==
    [c \in Alphabet |-> IF Occurs(UpperAscii, c) THEN LowerAscii[IndexIn(UpperAscii, c)] ELSE c]

SqlLowerChar(c) == SqlLowerMap[c]

SqlLower(s) == [i \in 1..Len(s) |-> SqlLowerChar(s[i])]

\* Unicode case folding: what Python's str.lower() and str.upper() do (here:
\* ASCII and the Cyrillic letters EL U+041B/U+043B and A U+0410/U+0430).
PyLowerMap ==
    [c \in Alphabet |->
        IF Occurs(UpperAscii, c) THEN LowerAscii[IndexIn(UpperAscii, c)]
        ELSE IF c = "U+041B" THEN "U+043B"
        ELSE IF c = "U+0410" THEN "U+0430"
        ELSE c]

PyUpperMap ==
    [c \in Alphabet |->
        IF Occurs(LowerAscii, c) THEN UpperAscii[IndexIn(LowerAscii, c)]
        ELSE IF c = "U+043B" THEN "U+041B"
        ELSE IF c = "U+0430" THEN "U+0410"
        ELSE c]

PyLowerChar(c) == PyLowerMap[c]

PyUpperChar(c) == PyUpperMap[c]

PyLower(s) == [i \in 1..Len(s) |-> PyLowerChar(s[i])]

\* str.capitalize(): first character upper-cased, the rest lower-cased.
PyCapitalize(s) == [i \in 1..Len(s) |-> IF i = 1 THEN PyUpperChar(s[i]) ELSE PyLowerChar(s[i])]

IsSpace(c) == c = " "

MinOf(S) == CHOOSE x \in S : \A y \in S : x <= y
MaxOf(S) == CHOOSE x \in S : \A y \in S : y <= x

\* str.strip(): leading and trailing whitespace removed.
PyStrip(s) ==
    LET keep == {i \in 1..Len(s) : ~IsSpace(s[i])}
    IN  IF keep = {} THEN <<>> ELSE SubSeq(s, MinOf(keep), MaxOf(keep))

\* request.form.get(name, '').strip()
GetStripped(v) == IF v = None THEN <<>> ELSE PyStrip(v)

\* Value of a string of decimal digits.
RECURSIVE DigitsValue(_)
DigitsValue(s) ==
    IF s = <<>> THEN 0
    ELSE 10 * DigitsValue(SubSeq(s, 1, Len(s) - 1)) + (IndexIn(Digits, s[Len(s)]) - 1)

\* int(text) succeeds on: optional surrounding whitespace, an optional sign,
\* then digits, single underscores allowed between digits.
IntBody(s) ==
    LET t == PyStrip(s)
    IN  IF t # <<>> /\ t[1] \in {"+", "-"} THEN SubSeq(t, 2, Len(t)) ELSE t

IntParses(s) ==
    LET b == IntBody(s)
    IN  /\ b # <<>>
        /\ \A i \in 1..Len(b) : Occurs(Digits, b[i]) \/ b[i] = "_"
        /\ Occurs(Digits, b[1]) /\ Occurs(Digits, b[Len(b)])
        /\ \A i \in 1..(Len(b) - 1) : ~(b[i] = "_" /\ b[i + 1] = "_")

IntValue(s) ==
    LET b == IntBody(s)
        d == SelectSeq(b, LAMBDA c : c # "_")
        t == PyStrip(s)
    IN  IF t[1] = "-" THEN 0 - DigitsValue(d) ELSE DigitsValue(d)

\* safe_int: int(value), or None on TypeError (value is None) or ValueError.
safe_int(value) ==
    IF value = None THEN NoneInt
    ELSE IF IntParses(value) THEN SomeInt(IntValue(value))
    ELSE NoneInt

\* `safe_int(x) or 0`
OrZero(x) == IF TruthyInt(x) THEN x.val ELSE 0

\* SQLite's LIKE: % matches any run of characters, _ any one character, any
\* other character matches itself, ASCII letters regardless of case.
RECURSIVE SqlLike(_, _)
SqlLike(s, pat) ==
    IF pat = <<>> THEN s = <<>>
    ELSE IF pat[1] = "%"
         THEN \E k \in 0..Len(s) : SqlLike(SubSeq(s, k + 1, Len(s)), Tail(pat))
    ELSE IF s = <<>> THEN FALSE
    ELSE /\ (pat[1] = "_" \/ SqlLowerChar(pat[1]) = SqlLowerChar(s[1]))
         /\ SqlLike(Tail(s), Tail(pat))

Range(seq) == {seq[i] : i \in 1..Len(seq)}


\* ------------------------------------------------------------------- texts
T_china == <<"c","h","i","n","a">>
T_korea == <<"k","o","r","e","a">>
T_China == <<"C","h","i","n","a">>
T_Korea == <<"K","o","r","e","a">>
T_admin_email == <<"d","e","m","o","@","a","s","i","a","d","r","i","v","e",".","c","o","m">>
T_moderator_email == <<"m","o","d","e","r","a","t","o","r","@","a","s","i","a","d","r","i","v","e",".","c","o","m">>
T_admin_password == <<"d","e","m","o","1","2","3","4">>
T_moderator_password == <<"m","o","d","1","2","3","4">>
T_a_b_com == <<"a","@","b",".","c","o","m">>
T_A_B_com_padded == <<" ","A","@","B",".","c","o","m"," ">>
T_k_b_com == <<"k","@","b",".","c","o","m">>
T_x1 == <<"x","1">>
T_x2 == <<"x","2">>
T_Kia == <<"K","i","a">>
T_Rio == <<"R","i","o">>
T_rio == <<"r","i","o">>
T_KI == <<"K","I">>
T_Lada == <<"U+041B","U+0430">>
T_lada == <<"U+043B","U+0430">>
T_blank == <<" "," ">>

\* ---------------------------------------------------------------- database
VARIABLES
    users,              \* table users, rows in rowid order
    cars,               \* table cars
    leads,              \* table leads
    tracking_events,    \* table tracking_events
    session,            \* session['user_id'] of the browser (None when absent)
    clock,              \* CURRENT_TIMESTAMP of the store, in seconds
    request,            \* the request handled last
    response,           \* what the handler returned for it
    open_connections,   \* connections the last request opened and left open
    in_flight           \* register requests of other browsers, handled concurrently

vars == <<users, cars, leads, tracking_events, session, clock, request, response,
          open_connections, in_flight>>

tables == <<users, cars, leads, tracking_events>>

\* generate_password_hash / check_password_hash: the hash is not the password,
\* and a password verifies against exactly the hashes made from it.
generate_password_hash(p) == <<"pbkdf2">> \o p
check_password_hash(h, p) == h = generate_password_hash(p)

\* init_db.py: the two seeded accounts.
SeedUsers == <<
    [id |-> 1, name |-> <<"D","e","m","o"," ","M","a","n","a","g","e","r">>, email |-> T_admin_email,
     password_hash |-> generate_password_hash(T_admin_password), role |-> "admin"],
    [id |-> 2, name |-> <<"M","o","d","e","r","a","t","o","r"," ","K","i","m">>, email |-> T_moderator_email,
     password_hash |-> generate_password_hash(T_moderator_password), role |-> "moderator"] >>

\* init_db.py: the four seeded cars (fuel type, image and description left out:
\* no handler decides anything on them).
SeedCars == <<
    [id |-> 1, brand |-> <<"H","y","u","n","d","a","i">>, model |-> <<"S","o","n","a","t","a">>, year |-> 2021,
     price |-> 25000, mileage |-> 15000, country |-> T_Korea],
    [id |-> 2, brand |-> T_Kia, model |-> <<"S","o","r","e","n","t","o">>, year |-> 2022,
     price |-> 42000, mileage |-> 5000, country |-> T_Korea],
    [id |-> 3, brand |-> <<"B","Y","D">>, model |-> <<"H","a","n">>, year |-> 2023,
     price |-> 45000, mileage |-> 0, country |-> T_China],
    [id |-> 4, brand |-> <<"G","e","e","l","y">>, model |-> <<"M","o","n","j","a","r","o">>, year |-> 2022,
     price |-> 36000, mileage |-> 8000, country |-> T_China] >>

\* init_db.py: one seeded tracking event per seeded car, all written by one run
\* of the script (status and location texts shortened to a word).
SeedEvents == <<
    [id |-> 1, car_id |-> 1, status |-> <<"W","a","r","e","h","o","u","s","e">>, location |-> <<"B","u","s","a","n">>, updated_at |-> 0],
    [id |-> 2, car_id |-> 2, status |-> <<"A","t","S","e","a">>, location |-> <<"Y","e","l","l","o","w","S","e","a">>, updated_at |-> 0],
    [id |-> 3, car_id |-> 3, status |-> <<"C","u","s","t","o","m","s">>, location |-> <<"V","l","a","d","i","v","o","s","t","o","k">>, updated_at |-> 0],
    [id |-> 4, car_id |-> 4, status |-> <<"D","e","l","i","v","e","r","y">>, location |-> <<"N","o","v","o","s","i","b","i","r","s","k">>, updated_at |-> 0] >>

\* A user id no row will carry within the bounds: the session of a browser whose
\* account was removed from the store by hand (no handler deletes a user).
StaleUserId == Len(SeedUsers) + MaxNewUsers + 2

\* ----------------------------------------------------------------- requests
Fields == {"country", "q", "brand", "model", "year", "price", "mileage",
           "name", "phone", "car_id", "budget", "status", "location",
           "email", "password", "password_confirm"}

\* The form (or query string) of a request: a field not sent is None.
Form(sent) == [k \in Fields |-> IF k \in DOMAIN sent THEN sent[k] ELSE None]

NoRows == << >>
NoMap == [c \in {} |-> 0]

Request(handler, method, form) ==
    [handler |-> handler, method |-> method, form |-> form, cookie |-> session]

Response(outcome) == [outcome |-> outcome, cars |-> NoRows, tracking_map |-> NoMap]

\* The browsers whose register requests are handled concurrently, each by its
\* own thread of the server with its own connection.
Browsers == {"b1", "b2"}

\* A concurrent register request: where its thread stands in register (pc), its
\* form, session['user_id'] of its browser, cursor.lastrowid, and whether its
\* SELECT ran before any of the concurrent requests ran its INSERT.
NotStarted ==
    [pc |-> "idle", form |-> Form(<< >>), session |-> NoneInt, lastrowid |-> 0,
     outcome |-> "none", selected_first |-> FALSE]

\* The store as init_db.py leaves it, and a browser holding either no session or
\* the session of an account that is gone.
Init ==
    /\ users = SeedUsers
    /\ cars = SeedCars
    /\ leads = << >>
    /\ tracking_events = SeedEvents
    /\ session \in {NoneInt, SomeInt(StaleUserId)}
    /\ clock = 0
    /\ request = Request("none", "GET", Form(<< >>))
    /\ response = Response("none")
    /\ open_connections = 0
    /\ in_flight = [b \in Browsers |-> NotStarted]

\* --------------------------------------------------------- identity, guards
\* get_current_user: the users row the session names, as a set: empty when the
\* session holds no (or a falsy) user_id or names no row, else that one row.
get_current_user ==
    IF ~TruthyInt(session) THEN {}
    ELSE {u \in Range(users) : u.id = session.val}

\* Faulty variant of role_check: the role is never tested.
role_check_any(user, roles) == TRUE

\* role_required, line 157: `roles and user['role'] not in roles` is the refusal.
role_check(user, roles) == ~(roles # {} /\ user.role \notin roles)

\* role_required(*roles): what the decorator decides before the view runs.
role_required(roles) ==
    LET user == get_current_user
    IN  IF user = {} THEN "login_redirect"
        ELSE IF ~role_check(CHOOSE u \in user : TRUE, roles) THEN "forbidden"
        ELSE "pass"

\* login_required: what the decorator decides before the view runs.
login_required ==
    IF get_current_user = {} THEN "login_redirect" ELSE "pass"

\* A guard refused, or a handler returned without writing, with every
\* connection it opened closed: nothing but the request and the response changes.
Reply(req, outcome) ==
    /\ request' = req
    /\ response' = Response(outcome)
    /\ open_connections' = 0
    /\ UNCHANGED <<users, cars, leads, tracking_events, session, clock, in_flight>>

\* Faulty variant of normalize_email: .lower() left out.
normalize_email_strip_only(v) == GetStripped(v)

\* register/login, lines 415 and 459: request.form.get('email', '').strip().lower()
normalize_email(v) == PyLower(GetStripped(v))

\* "SELECT ... FROM users WHERE email = ?": the rows with exactly that email.
UsersByEmail(email) == {u \in Range(users) : u.email = email}

\* cursor.fetchone(): the first row of a non-empty result, in rowid order.
FirstRow(rows) == CHOOSE r \in rows : \A o \in rows : r.id <= o.id

Register(method, f) ==
    LET req == Request("register", method, f)
        name == GetStripped(f.name)
        email == normalize_email(f.email)
        password == GetStripped(f.password)
        password_confirm == GetStripped(f.password_confirm)
        user_id == Len(users) + 1
    IN  IF get_current_user # {} THEN Reply(req, "already_authenticated")
        ELSE IF method = "GET" THEN Reply(req, "render")
        ELSE IF name = <<>> \/ email = <<>> \/ password = <<>> \/ password_confirm = <<>>
             THEN Reply(req, "validation_error")
        ELSE IF password # password_confirm THEN Reply(req, "validation_error")
        ELSE IF UsersByEmail(email) # {} THEN Reply(req, "conflict")
        ELSE /\ Len(users) < Len(SeedUsers) + MaxNewUsers
             /\ users' = Append(users, [id |-> user_id, name |-> name, email |-> email,
                                        password_hash |-> generate_password_hash(password),
                                        role |-> "customer"])
             /\ session' = SomeInt(user_id)
             /\ request' = req
             /\ response' = Response("success")
             /\ open_connections' = 0
             /\ UNCHANGED <<cars, leads, tracking_events, clock, in_flight>>

Login(method, f) ==
    LET req == Request("login", method, f)
        email == normalize_email(f.email)
        password == GetStripped(f.password)
        found == UsersByEmail(email)
    IN  IF get_current_user # {} THEN Reply(req, "already_authenticated")
        ELSE IF method = "GET" THEN Reply(req, "render")
        ELSE IF found = {} \/ ~check_password_hash(FirstRow(found).password_hash, password)
             THEN Reply(req, "auth_error")
        ELSE /\ session' = SomeInt(FirstRow(found).id)
             /\ request' = req
             /\ response' = Response("success")
             /\ open_connections' = 0
             /\ UNCHANGED <<users, cars, leads, tracking_events, clock, in_flight>>

Logout ==
    /\ session' = NoneInt
    /\ request' = Request("logout", "GET", Form(<< >>))
    /\ response' = Response("success")
    /\ open_connections' = 0
    /\ UNCHANGED <<users, cars, leads, tracking_events, clock, in_flight>>

\* The store's clock moves on between requests.
Tick ==
    /\ clock < MaxClock
    /\ clock' = clock + 1
    /\ UNCHANGED <<users, cars, leads, tracking_events, session, request, response,
                   open_connections, in_flight>>

\* ------------------------------------------------------------------ catalog
\* index, lines 184-187: the country argument, stripped, lower-cased, capitalized.
normalized_country(country_filter) ==
    IF Truthy(country_filter) THEN PyCapitalize(PyLower(PyStrip(country_filter))) ELSE None

\* Faulty variant of country_clause_applies: the allow-list test left out.
country_clause_applies_always(country_filter) ==
    Truthy(normalized_country(country_filter))

\* index, line 197: whether the country clause joins the query.
country_clause_applies(country_filter) ==
    LET nc == normalized_country(country_filter)
    IN  Truthy(nc) /\ PyLower(nc) \in {T_china, T_korea}

\* index, lines 198-199: LOWER(country) = ? with the normalized country bound.
country_clause(car, country_filter) ==
    SqlLower(car.country) = normalized_country(country_filter)

\* index, lines 202-204: (LOWER(brand) LIKE ? OR LOWER(model) LIKE ?) with
\* '%' + search_query.lower() + '%' bound twice.
search_clause(car, search_query) ==
    LET like_pattern == <<"%">> \o PyLower(search_query) \o <<"%">>
    IN  SqlLike(SqlLower(car.brand), like_pattern) \/ SqlLike(SqlLower(car.model), like_pattern)

\* index, lines 193-207: the WHERE of the listing query.
where_cars(car, country_filter, search_query) ==
    /\ country_clause_applies(country_filter) => country_clause(car, country_filter)
    /\ Truthy(search_query) => search_clause(car, search_query)

\* ORDER BY year DESC (rows of one year stay in rowid order).
RECURSIVE order_by_year_desc(_)
order_by_year_desc(rows) ==
    IF rows = << >> THEN << >>
    ELSE LET first == CHOOSE i \in 1..Len(rows) :
                         /\ \A j \in 1..Len(rows) : rows[j].year <= rows[i].year
                         /\ \A j \in 1..(i - 1) : rows[j].year < rows[i].year
         IN  <<rows[first]>> \o
             order_by_year_desc(SubSeq(rows, 1, first - 1) \o SubSeq(rows, first + 1, Len(rows)))

\* index, lines 193-212: the cars of the listing.
select_cars(country_filter, search_query) ==
    order_by_year_desc(SelectSeq(cars, LAMBDA car : where_cars(car, country_filter, search_query)))

\* Faulty variant of latest_join_rows: MIN(updated_at) in place of MAX.
latest_join_rows_oldest ==
    {t \in Range(tracking_events) :
        \A e \in Range(tracking_events) : e.car_id = t.car_id => t.updated_at <= e.updated_at}

\* latest_tracking, lines 168-178: the rows of tracking_events joined to the
\* MAX(updated_at) of their car.
latest_join_rows ==
    {t \in Range(tracking_events) :
        \A e \in Range(tracking_events) : e.car_id = t.car_id => e.updated_at <= t.updated_at}

\* latest_tracking, line 179: {row['car_id']: row for row in rows}.  A later row
\* replaces an earlier one of the same car and the query fixes no row order, so
\* for each car any one of its joined rows can be the one that stays.
latest_tracking ==
    LET rows == latest_join_rows
        keys == {r.car_id : r \in rows}
    IN  {[k \in keys |-> CHOOSE r \in kept : r.car_id = k] :
            kept \in {K \in SUBSET rows :
                        \A k \in keys : Cardinality({r \in K : r.car_id = k}) = 1}}

\* GET /: the listing with the latest tracking event per car.  (The list of
\* distinct countries for the filter widget is rendered too; nothing reads it.)
Index(f) ==
    \E tracking_map \in latest_tracking :
        /\ request' = Request("index", "GET", f)
        /\ response' = [outcome |-> "render",
                        cars |-> select_cars(f.country, f.q),
                        tracking_map |-> tracking_map]
        /\ open_connections' = 0
        /\ UNCHANGED <<users, cars, leads, tracking_events, session, clock, in_flight>>

\* GET /add
AddCarForm ==
    LET req == Request("add_car_form", "GET", Form(<< >>))
        guard == role_required({"admin", "moderator"})
    IN  IF guard # "pass" THEN Reply(req, guard) ELSE Reply(req, "render")

\* add_car, line 241: the required fields whose value is falsy.
missing_fields(f) ==
    {field \in {"brand", "model", "year", "price", "country"} : ~Truthy(f[field])}

\* POST /add
AddCar(f) ==
    LET req == Request("add_car", "POST", f)
        guard == role_required({"admin", "moderator"})
    IN  IF guard # "pass" THEN Reply(req, guard)
        ELSE IF missing_fields(f) # {} THEN Reply(req, "validation_error")
        ELSE /\ Len(cars) < Len(SeedCars) + MaxNewCars
             /\ cars' = Append(cars, [id |-> Len(cars) + 1,
                                      brand |-> PyStrip(f.brand),
                                      model |-> PyStrip(f.model),
                                      year |-> OrZero(safe_int(f.year)),
                                      price |-> OrZero(safe_int(f.price)),
                                      mileage |-> OrZero(safe_int(f.mileage)),
                                      country |-> f.country])
             /\ request' = req
             /\ response' = Response("success")
             /\ open_connections' = 0
             /\ UNCHANGED <<users, leads, tracking_events, session, clock, in_flight>>

\* -------------------------------------------------------------------- leads
\* Faulty variant of lead_rejected: the name and phone test left out.
lead_rejected_never(name, phone) == FALSE

\* create_lead, line 287: `not name or not phone`, both already stripped.
lead_rejected(name, phone) == name = << >> \/ phone = << >>

\* POST /lead
CreateLead(f) ==
    LET req == Request("create_lead", "POST", f)
        guard == login_required
        name == GetStripped(f.name)
        phone == GetStripped(f.phone)
    IN  IF guard # "pass" THEN Reply(req, guard)
        ELSE IF lead_rejected(name, phone) THEN Reply(req, "validation_error")
        ELSE /\ Len(leads) < MaxNewLeads
             /\ leads' = Append(leads, [id |-> Len(leads) + 1,
                                        name |-> name,
                                        phone |-> phone,
                                        car_id |-> safe_int(f.car_id),
                                        budget |-> safe_int(f.budget),
                                        user_id |-> (CHOOSE u \in get_current_user : TRUE).id])
             /\ request' = req
             /\ response' = Response("success")
             /\ open_connections' = 0
             /\ UNCHANGED <<users, cars, tracking_events, session, clock, in_flight>>

\* GET /leads
LeadsList ==
    LET req == Request("leads_list", "GET", Form(<< >>))
        guard == role_required({"admin"})
    IN  IF guard # "pass" THEN Reply(req, guard) ELSE Reply(req, "render")

\* ----------------------------------------------------------------- tracking
\* GET /tracking
TrackingOverview == Reply(Request("tracking_overview", "GET", Form(<< >>)), "render")

\* Faulty variant of event_rejected: as if the store enforced the foreign key.
event_rejected_unless_car_exists(car_id, status, location) ==
    \/ ~TruthyInt(car_id) \/ status = << >> \/ location = << >>
    \/ \A c \in Range(cars) : c.id # car_id.val

\* manage_tracking, line 373: `not car_id or not status or not location`.
event_rejected(car_id, status, location) ==
    ~TruthyInt(car_id) \/ status = << >> \/ location = << >>

\* GET and POST /tracking/manage.  The POST branch returns at line 386 without
\* connection.close(): whether the connection is closed by then is left to the
\* interpreter's finalization of the unreferenced object.
ManageTracking(method, f) ==
    LET req == Request("manage_tracking", method, f)
        guard == role_required({"admin", "moderator"})
        car_id == safe_int(f.car_id)
        status == GetStripped(f.status)
        location == GetStripped(f.location)
    IN  IF guard # "pass" THEN Reply(req, guard)
        ELSE IF method = "GET" THEN Reply(req, "render")
        ELSE /\ request' = req
             /\ open_connections' \in {0, 1}
             /\ IF event_rejected(car_id, status, location)
                THEN /\ response' = Response("validation_error")
                     /\ UNCHANGED tracking_events
                ELSE /\ Len(tracking_events) < Len(SeedEvents) + MaxNewEvents
                     /\ tracking_events' =
                            Append(tracking_events, [id |-> Len(tracking_events) + 1,
                                                     car_id |-> car_id.val,
                                                     status |-> status,
                                                     location |-> location,
                                                     updated_at |-> clock])
                     /\ response' = Response("success")
             /\ UNCHANGED <<users, cars, leads, session, clock, in_flight>>

\* ----------------------------------------------------------- request inputs
T_china_padded == <<" ","c","h","i","n","a"," ">>
T_KOREA == <<"K","O","R","E","A">>
T_japan == <<"j","a","p","a","n">>
T_2020 == <<"2","0","2","0">>
T_15000 == <<"1","5","0","0","0">>
T_abc == <<"a","b","c">>
T_Ann == <<"A","n","n">>
T_phone == <<"+","7","9","0","0">>
T_1 == <<"1">>
T_0 == <<"0">>
T_99 == <<"9","9">>
T_status == <<"S","h","i","p","p","e","d">>
T_location == <<"B","u","s","a","n">>

LoginForms == {
    Form([email |-> T_admin_email, password |-> T_admin_password]),
    Form([email |-> T_moderator_email, password |-> T_moderator_password]),
    Form([email |-> T_admin_email, password |-> T_x1]),
    Form([email |-> T_A_B_com_padded, password |-> T_x1]),
    Form([email |-> T_k_b_com, password |-> T_x1]) }

RegisterForm(name, email, password, password_confirm) ==
    Form([name |-> name, email |-> email, password |-> password,
          password_confirm |-> password_confirm])

RegisterForms == {
    RegisterForm(T_Ann, T_a_b_com, T_x1, T_x1),
    RegisterForm(T_Ann, T_A_B_com_padded, T_x1, T_x1),
    RegisterForm(T_Ann, T_k_b_com, T_x1, T_x1),
    RegisterForm(T_Ann, T_a_b_com, T_x1, T_x2),
    RegisterForm(T_blank, T_a_b_com, T_x1, T_x1),
    RegisterForm(T_Ann, None, T_x1, T_x1) }

CarForm(brand, model, year, price, country) ==
    Form([brand |-> brand, model |-> model, year |-> year, price |-> price,
          country |-> country])

CarForms == {
    CarForm(T_Kia, T_Rio, T_2020, T_15000, T_Korea),
    CarForm(T_Kia, T_Rio, T_abc, T_15000, T_China),
    CarForm(T_Lada, T_Rio, T_2020, T_15000, T_China),
    CarForm(T_blank, T_Rio, T_2020, T_15000, T_Korea),
    CarForm(<< >>, T_Rio, T_2020, T_15000, T_Korea),
    CarForm(T_Kia, T_Rio, T_2020, T_15000, None) }

IndexForm(country, q) == Form([country |-> country, q |-> q])

IndexForms ==
    {IndexForm(c, None) :
        c \in {None, << >>, T_blank, T_china, T_China, T_china_padded, T_KOREA, T_japan}}
    \cup {IndexForm(None, q) : q \in {<< >>, T_rio, T_KI, T_lada, T_Lada, <<"_","i","a">>}}
    \cup {IndexForm(T_japan, T_rio), IndexForm(T_china, T_rio), IndexForm(T_KOREA, T_KI),
          IndexForm(T_china_padded, T_KI)}

LeadForm(name, phone, car_id, budget) ==
    Form([name |-> name, phone |-> phone, car_id |-> car_id, budget |-> budget])

LeadForms == {
    LeadForm(T_Ann, T_phone, T_1, T_15000),
    LeadForm(T_Ann, T_phone, T_abc, << >>),
    LeadForm(T_Ann, T_phone, None, None),
    LeadForm(T_blank, T_phone, T_1, T_15000),
    LeadForm(T_Ann, T_blank, T_1, T_15000),
    LeadForm(T_Ann, None, T_1, T_15000) }

EventForm(car_id, status, location) ==
    Form([car_id |-> car_id, status |-> status, location |-> location])

EventForms == {
    EventForm(T_1, T_status, T_location),
    EventForm(T_99, T_status, T_location),
    EventForm(T_0, T_status, T_location),
    EventForm(T_abc, T_status, T_location),
    EventForm(None, T_status, T_location),
    EventForm(T_1, T_blank, T_location),
    EventForm(T_1, T_status, None) }

Methods == {"GET", "POST"}

\* ----------------------------------------------------------- specifications
\* The whole application, each handler on a few requests.
Next ==
    \/ \E m \in Methods : \E f \in {RegisterForm(T_Ann, T_a_b_com, T_x1, T_x1)} : Register(m, f)
    \/ \E m \in Methods : \E f \in {Form([email |-> T_admin_email, password |-> T_admin_password]),
                                    Form([email |-> T_moderator_email, password |-> T_moderator_password]),
                                    Form([email |-> T_a_b_com, password |-> T_x1])} : Login(m, f)
    \/ Logout
    \/ \E f \in {Form(<< >>)} : Index(f)
    \/ AddCarForm
    \/ \E f \in {CarForm(T_Kia, T_Rio, T_2020, T_15000, T_Korea),
                 CarForm(T_Kia, T_Rio, T_2020, T_15000, None)} : AddCar(f)
    \/ \E f \in {LeadForm(T_Ann, T_phone, T_1, T_15000),
                 LeadForm(T_Ann, T_blank, T_1, T_15000)} : CreateLead(f)
    \/ LeadsList
    \/ TrackingOverview
    \/ \E m \in Methods : \E f \in {EventForm(T_1, T_status, T_location),
                                    EventForm(T_0, T_status, T_location)} : ManageTracking(m, f)

Spec == Init /\ [][Next]_vars

\* Accounts: registration, login and logout on every registration form.
NextAccounts ==
    \/ \E m \in Methods : \E f \in RegisterForms : Register(m, f)
    \/ \E m \in Methods : \E f \in LoginForms : Login(m, f)
    \/ Logout

SpecAccounts == Init /\ [][NextAccounts]_vars

\* The catalogue: adding cars and listing them under every filter.
NextCatalog ==
    \/ \E f \in LoginForms : Login("POST", f)
    \/ Logout
    \/ \E f \in IndexForms : Index(f)
    \/ AddCarForm
    \/ \E f \in CarForms : AddCar(f)

SpecCatalog == Init /\ [][NextCatalog]_vars

\* Leads: customers register or log in and send inquiries.
NextLeads ==
    \/ \E f \in {RegisterForm(T_Ann, T_a_b_com, T_x1, T_x1)} : Register("POST", f)
    \/ \E f \in LoginForms : Login("POST", f)
    \/ Logout
    \/ \E f \in LeadForms : CreateLead(f)
    \/ LeadsList

SpecLeads == Init /\ [][NextLeads]_vars

\* Tracking: events recorded over time and read back by the listing.
NextTracking ==
    \/ \E f \in LoginForms : Login("POST", f)
    \/ Logout
    \/ Tick
    \/ \E m \in Methods : \E f \in EventForms : ManageTracking(m, f)
    \/ TrackingOverview
    \/ \E f \in {Form(<< >>)} : Index(f)

SpecTracking == Init /\ [][NextTracking]_vars

\* ---------------------------------------------------- concurrent register
\* register, statement by statement, for requests of several browsers that the
\* server handles at once, each on its own connection.  A row written by INSERT
\* is seen by the other connections from the COMMIT on; from INSERT to COMMIT
\* the connection holds the store's write lock.

\* The thread has executed the INSERT of line 436 (whether or not it succeeded).
HasRunInsert(r) ==
    \/ r.pc \in {"inserted", "committed", "raised"}
    \/ r.pc = "returned" /\ r.outcome = "success"

\* Another connection holds the write lock: it has inserted and not committed.
WriteLocked(b) == \E o \in Browsers \ {b} : in_flight[o].pc = "inserted"

\* Faulty variant of unique_email_violated: the column declared without UNIQUE.
unique_email_unenforced(email) == FALSE

\* ensure_tables, line 39: email TEXT NOT NULL UNIQUE refuses an INSERT whose
\* email a stored row has.
unique_email_violated(email) == UsersByEmail(email) # {}

\* Lines 408-429: a browser without a session posts the form; a valid form
\* takes the thread to its connection.
RegisterBegin(b, f) ==
    LET name == GetStripped(f.name)
        email == normalize_email(f.email)
        password == GetStripped(f.password)
        password_confirm == GetStripped(f.password_confirm)
        valid == /\ name # <<>> /\ email # <<>> /\ password # <<>> /\ password_confirm # <<>>
                 /\ password = password_confirm
    IN  /\ in_flight[b].pc = "idle"
        /\ in_flight' = [in_flight EXCEPT ![b] =
               [@ EXCEPT !.form = f,
                         !.pc = IF valid THEN "connected" ELSE "returned",
                         !.outcome = IF valid THEN "none" ELSE "validation_error"]]
        /\ UNCHANGED <<users, cars, leads, tracking_events, session, clock, request,
                       response, open_connections>>

\* Lines 430-434: the SELECT by email; a row found ends the request as a conflict.
RegisterSelect(b) ==
    LET r == in_flight[b]
        found == UsersByEmail(normalize_email(r.form.email)) # {}
    IN  /\ r.pc = "connected"
        /\ in_flight' = [in_flight EXCEPT ![b] =
               [@ EXCEPT !.pc = IF found THEN "returned" ELSE "selected",
                         !.outcome = IF found THEN "conflict" ELSE "none",
                         !.selected_first = \A o \in Browsers : ~HasRunInsert(in_flight[o])]]
        /\ UNCHANGED <<users, cars, leads, tracking_events, session, clock, request,
                       response, open_connections>>

\* Lines 436-439: the INSERT.  It raises sqlite3.OperationalError when the write
\* lock stays with another connection past the busy timeout, and
\* sqlite3.IntegrityError when the email is stored already; register catches
\* neither, so the request ends there, its connection not closed by the code.
RegisterInsert(b) ==
    LET r == in_flight[b]
        email == normalize_email(r.form.email)
    IN  /\ r.pc = "selected"
        /\ IF WriteLocked(b) \/ unique_email_violated(email)
           THEN /\ in_flight' = [in_flight EXCEPT ![b] =
                       [@ EXCEPT !.pc = "raised", !.outcome = "store_error"]]
                /\ open_connections' \in {0, 1}
           ELSE /\ Len(users) < Len(SeedUsers) + MaxNewUsers
                /\ in_flight' = [in_flight EXCEPT ![b] =
                       [@ EXCEPT !.pc = "inserted", !.lastrowid = Len(users) + 1]]
                /\ UNCHANGED open_connections
        /\ UNCHANGED <<users, cars, leads, tracking_events, session, clock, request, response>>

\* Line 440: connection.commit() makes the row part of the table.
RegisterCommit(b) ==
    LET r == in_flight[b]
    IN  /\ r.pc = "inserted"
        /\ users' = Append(users, [id |-> r.lastrowid,
                                   name |-> GetStripped(r.form.name),
                                   email |-> normalize_email(r.form.email),
                                   password_hash |->
                                       generate_password_hash(GetStripped(r.form.password)),
                                   role |-> "customer"])
        /\ in_flight' = [in_flight EXCEPT ![b] = [@ EXCEPT !.pc = "committed"]]
        /\ UNCHANGED <<cars, leads, tracking_events, session, clock, request, response,
                       open_connections>>

\* Lines 441-446: the connection is closed and session['user_id'] set.
RegisterReturn(b) ==
    LET r == in_flight[b]
    IN  /\ r.pc = "committed"
        /\ in_flight' = [in_flight EXCEPT ![b] =
               [@ EXCEPT !.pc = "returned", !.outcome = "success",
                         !.session = SomeInt(r.lastrowid)]]
        /\ UNCHANGED <<users, cars, leads, tracking_events, session, clock, request,
                       response, open_connections>>

ConcurrentRegisterForms == {
    RegisterForm(T_Ann, T_a_b_com, T_x1, T_x1),
    RegisterForm(T_Ann, T_A_B_com_padded, T_x1, T_x1),
    RegisterForm(T_Ann, T_k_b_com, T_x1, T_x1),
    RegisterForm(T_Ann, T_a_b_com, T_x1, T_x2) }

\* Register requests of the browsers, interleaved statement by statement.
NextConcurrent ==
    \/ \E b \in Browsers : \E f \in ConcurrentRegisterForms : RegisterBegin(b, f)
    \/ \E b \in Browsers : RegisterSelect(b)
    \/ \E b \in Browsers : RegisterInsert(b)
    \/ \E b \in Browsers : RegisterCommit(b)
    \/ \E b \in Browsers : RegisterReturn(b)

SpecConcurrent == Init /\ [][NextConcurrent]_vars

\* =================================================================== claims
\* What the claims speak of, stated apart from the handlers' code.

\* The users row a session cookie names, as a set (empty: none).
CookieUser(cookie) == {u \in Range(users) : ~cookie.isNone /\ u.id = cookie.val}

\* A text that is missing, empty or whitespace only.
IsBlank(v) == v = None \/ \A i \in 1..Len(v) : v[i] = " "

\* Equality of two texts ignoring case.
EqIgnoreCase(a, b) == a # None /\ PyLower(a) = PyLower(b)

\* Equality ignoring case and surrounding whitespace.
EqIgnoreCaseTrim(a, b) == a # None /\ PyLower(PyStrip(a)) = PyLower(PyStrip(b))

\* q occurs in s as a substring, ignoring case.
ContainsIgnoreCase(s, q) ==
    \E i \in 1..(Len(s) + 1) : \E j \in (i - 1)..Len(s) :
        PyLower(SubSeq(s, i, j)) = PyLower(q)

\* This step is a request to one of the handlers (the only other step, Tick, is
\* the one that moves the clock).
Handled(handlers) == clock' = clock /\ request'.handler \in handlers

GuardedHandlers == {"add_car_form", "add_car", "manage_tracking", "leads_list", "create_lead"}

AllowedRoles(handler) ==
    CASE handler \in {"add_car_form", "add_car", "manage_tracking"} -> {"admin", "moderator"}
      [] handler = "leads_list" -> {"admin"}
      [] handler = "create_lead" -> {"admin", "moderator", "customer"}

\* C1: a guarded handler's body runs only for a session that names an existing
\* user whose role is allowed; without such a session the request is redirected
\* to login, with a role outside the allowed set to the index, and in both cases
\* the four tables stay as they were.
C1_GuardedOperations ==
    [][Handled(GuardedHandlers) =>
        LET user == CookieUser(request'.cookie)
            allowed == AllowedRoles(request'.handler)
            refused == response'.outcome \in {"login_redirect", "forbidden"}
        IN  /\ ~refused => \E u \in user : u.role \in allowed
            /\ user = {} => response'.outcome = "login_redirect" /\ tables' = tables
            /\ (\E u \in user : u.role \notin allowed) =>
                   response'.outcome = "forbidden" /\ tables' = tables]_vars

\* C1 witness: a registered customer asked to add a car and was sent to the index.
C1_Witness ==
    /\ request.handler = "add_car"
    /\ \E u \in CookieUser(request.cookie) : u.role = "customer"
    /\ response.outcome = "forbidden"

\* The register request of this step names an email some user row already has.
RegistersTakenEmail ==
    /\ Handled({"register"})
    /\ request'.method = "POST"
    /\ \E u \in Range(users) : EqIgnoreCaseTrim(request'.form.email, u.email)

\* C2 as claimed: every register whose email equals a registered one ignoring
\* case and surrounding whitespace is rejected with ConflictError, adds no user
\* row and establishes no session.
C2_AsClaimed ==
    [][RegistersTakenEmail =>
        response'.outcome = "conflict" /\ users' = users /\ session' = session]_vars

\* No two user rows share an email, ignoring case.
NoDuplicateEmail ==
    \A i, j \in 1..Len(users) : EqIgnoreCase(users[i].email, users[j].email) => i = j

\* C2 amended: every register whose email equals a registered one ignoring case
\* and surrounding whitespace is rejected, adds no user row and leaves the
\* session as it was; the rejection is ConflictError when the browser holds no
\* authenticated session and the form is otherwise valid (non-blank name and
\* password, matching confirmation), ValidationError when the form is invalid,
\* and a redirect to the index when the browser is already authenticated; no two
\* user rows ever share an email.
C2_Registration ==
    /\ []NoDuplicateEmail
    /\ [][RegistersTakenEmail =>
            LET f == request'.form
                authenticated == CookieUser(request'.cookie) # {}
                valid == /\ ~IsBlank(f.name) /\ ~IsBlank(f.password)
                         /\ ~IsBlank(f.password_confirm)
                         /\ PyStrip(f.password) = PyStrip(f.password_confirm)
            IN  /\ users' = users
                /\ session' = session
                /\ response'.outcome =
                       IF authenticated THEN "already_authenticated"
                       ELSE IF valid THEN "conflict" ELSE "validation_error"]_vars

\* C2 witness: a@b.com is registered and a register of " A@B.com " was refused
\* as a conflict.
C2_Witness ==
    /\ request.handler = "register"
    /\ request.form.email = T_A_B_com_padded
    /\ response.outcome = "conflict"
    /\ \E u \in Range(users) : u.email = T_a_b_com

\* C3: after a listing, every car with tracking events has exactly one entry in
\* the tracking map, an event of that car that no event of the car is newer
\* than, and a car without events has no entry.
C3_LatestPerCar ==
    request.handler = "index" =>
        LET tm == response.tracking_map
        IN  /\ \A car \in Range(cars) :
                  car.id \in DOMAIN tm <=> \E e \in Range(tracking_events) : e.car_id = car.id
            /\ \A c \in DOMAIN tm :
                  /\ tm[c] \in Range(tracking_events)
                  /\ tm[c].car_id = c
                  /\ \A e \in Range(tracking_events) :
                        e.car_id = c => e.updated_at <= tm[c].updated_at

\* C3 witness: a listing made while a car has two events of the same, newest
\* timestamp and an older one.
C3_Witness ==
    /\ request.handler = "index"
    /\ \E a, b, o \in Range(tracking_events) :
          /\ a.id # b.id /\ a.car_id = b.car_id /\ o.car_id = a.car_id
          /\ a.updated_at = b.updated_at /\ o.updated_at < a.updated_at
          /\ response.tracking_map[a.car_id].updated_at = a.updated_at

\* The listing of the last request is the listing the same request gets with
\* no country filter.
ListsAsUnfiltered == response.cars = select_cars(None, request.form.q)

\* C4 as claimed: whenever the country argument is not equal to "china" or
\* "korea" ignoring case (absent and empty included), the listing is the one of
\* the same request without a country filter.
C4_AsClaimed ==
    (/\ request.handler = "index"
     /\ ~EqIgnoreCase(request.form.country, T_china)
     /\ ~EqIgnoreCase(request.form.country, T_korea)) => ListsAsUnfiltered

\* C4 amended: whenever the country argument, with its surrounding whitespace
\* removed, is not equal to "china" or "korea" ignoring case (absent, empty and
\* whitespace-only included), the listing is the one of the same request
\* without a country filter.
C4_IgnoredCountry ==
    (/\ request.handler = "index"
     /\ ~EqIgnoreCaseTrim(request.form.country, T_china)
     /\ ~EqIgnoreCaseTrim(request.form.country, T_korea)) => ListsAsUnfiltered

\* C4 witness: a listing for country "japan" and q "rio" that returned a car.
C4_Witness ==
    /\ request.handler = "index"
    /\ request.form.country = T_japan
    /\ request.form.q = T_rio
    /\ response.cars # << >>

\* The car matches the search query as the specification words it: no query, or
\* the query occurs in the brand or in the model ignoring case.
MatchesQuery(car, q) ==
    Truthy(q) => ContainsIgnoreCase(car.brand, q) \/ ContainsIgnoreCase(car.model, q)

\* C5: when the country argument equals "china" or "korea" ignoring case (and
\* surrounding whitespace), the listing holds exactly the cars whose country
\* equals it ignoring case and which match the search query, if any.
C5_CountryFilter ==
    (/\ request.handler = "index"
     /\ \/ EqIgnoreCaseTrim(request.form.country, T_china)
        \/ EqIgnoreCaseTrim(request.form.country, T_korea)) =>
        Range(response.cars) =
            {car \in Range(cars) :
                /\ EqIgnoreCaseTrim(request.form.country, car.country)
                /\ MatchesQuery(car, request.form.q)}

\* C6: a lead sent by an authenticated user with a blank name or phone is
\* refused as a validation error and adds no row; any other adds exactly one
\* row, owned by that user, with an unparsable car_id or budget stored as None.
C6_CreateLead ==
    [][(Handled({"create_lead"}) /\ CookieUser(request'.cookie) # {}) =>
        LET f == request'.form
        IN  IF IsBlank(f.name) \/ IsBlank(f.phone)
            THEN response'.outcome = "validation_error" /\ leads' = leads
            ELSE /\ response'.outcome = "success"
                 /\ Len(leads') = Len(leads) + 1
                 /\ SubSeq(leads', 1, Len(leads)) = leads
                 /\ leads'[Len(leads')].user_id = request'.cookie.val
                 /\ (f.car_id = None \/ ~IntParses(f.car_id)) =>
                        leads'[Len(leads')].car_id = NoneInt
                 /\ (f.budget = None \/ ~IntParses(f.budget)) =>
                        leads'[Len(leads')].budget = NoneInt]_vars

\* C6 witness: a lead with car_id "abc" and an empty budget was stored with both
\* absent.
C6_Witness ==
    /\ request.handler = "create_lead"
    /\ request.form.car_id = T_abc
    /\ response.outcome = "success"
    /\ leads # << >>
    /\ leads[Len(leads)].car_id = NoneInt
    /\ leads[Len(leads)].budget = NoneInt
    /\ leads[Len(leads)].user_id = request.cookie.val

\* C7: a listing with no effective country filter and a search query that
\* occurs, ignoring case, in the brand or the model of a car added through
\* add_car returns that car.
C7_AddThenSearch ==
    (/\ request.handler = "index"
     /\ ~EqIgnoreCaseTrim(request.form.country, T_china)
     /\ ~EqIgnoreCaseTrim(request.form.country, T_korea)
     /\ request.form.q # None) =>
        \A car \in Range(cars) :
            (/\ car.id > Len(SeedCars)
             /\ \/ ContainsIgnoreCase(car.brand, request.form.q)
                \/ ContainsIgnoreCase(car.model, request.form.q)) =>
                car \in Range(response.cars)

\* The car_id of a form parses to an integer other than zero.
ParsesNonZero(v) == v # None /\ IntParses(v) /\ IntValue(v) # 0

\* C8: a tracking event posted by an admin or moderator with a car_id that
\* parses to a non-zero integer and a non-blank status and location appends
\* exactly one event, whether or not a car has that id; any other such post
\* appends nothing; and no step changes or removes an event already stored.
C8_RecordEvent ==
    [][/\ Len(tracking_events') >= Len(tracking_events)
       /\ SubSeq(tracking_events', 1, Len(tracking_events)) = tracking_events
       /\ (/\ Handled({"manage_tracking"})
           /\ request'.method = "POST"
           /\ \E u \in CookieUser(request'.cookie) : u.role \in {"admin", "moderator"}) =>
            LET f == request'.form
            IN  IF /\ ParsesNonZero(f.car_id) /\ ~IsBlank(f.status) /\ ~IsBlank(f.location)
                THEN /\ response'.outcome = "success"
                     /\ Len(tracking_events') = Len(tracking_events) + 1
                     /\ tracking_events'[Len(tracking_events')].car_id = IntValue(f.car_id)
                ELSE /\ response'.outcome = "validation_error"
                     /\ tracking_events' = tracking_events]_vars

\* C8 witness: an event for car_id 99 was stored while no car has that id.
C8_Witness ==
    /\ request.handler = "manage_tracking"
    /\ request.form.car_id = T_99
    /\ response.outcome = "success"
    /\ tracking_events[Len(tracking_events)].car_id = 99
    /\ \A car \in Range(cars) : car.id # 99

\* C9: when a request returns, no connection it opened is still open.
C9_ConnectionsClosed == open_connections = 0

\* C10: every stored car has a non-blank brand, model and country; and an
\* add_car request with a blank or missing brand, model, year, price or country
\* is refused as a validation error.
C10_CarInvariant ==
    /\ \A car \in Range(cars) :
          ~IsBlank(car.brand) /\ ~IsBlank(car.model) /\ ~IsBlank(car.country)
    /\ (/\ request.handler = "add_car"
        /\ \E u \in CookieUser(request.cookie) : u.role \in {"admin", "moderator"}
        /\ \E field \in {"brand", "model", "year", "price", "country"} :
              IsBlank(request.form[field])) => response.outcome = "validation_error"

\* C11: when register requests for one email interleave, at most one user row
\* holds that email, at most one of the requests sets session['user_id'], a
\* request whose INSERT was refused sets none, and a session that was set names
\* the row of that email.
C11_ConcurrentRegister ==
    /\ \A i, j \in 1..Len(users) : users[i].email = users[j].email => i = j
    /\ \A b \in Browsers :
          LET r == in_flight[b]
          IN  /\ r.pc = "raised" => r.session = NoneInt
              /\ ~r.session.isNone =>
                    \E u \in Range(users) :
                        u.id = r.session.val /\ EqIgnoreCaseTrim(r.form.email, u.email)
    /\ \A b, c \in Browsers :
          (/\ b # c
           /\ in_flight[b].form.email # None /\ in_flight[c].form.email # None
           /\ EqIgnoreCaseTrim(in_flight[b].form.email, in_flight[c].form.email)) =>
              in_flight[b].session.isNone \/ in_flight[c].session.isNone

\* C11 witness: two requests for a@b.com, one as " A@B.com ", both ran their
\* SELECT before either ran its INSERT; one returned with its session set, the
\* INSERT of the other was refused and its session is unset; one row holds the
\* email.
C11_Witness ==
    \E b, c \in Browsers :
        /\ b # c
        /\ in_flight[b].selected_first /\ in_flight[c].selected_first
        /\ in_flight[b].form.email = T_a_b_com
        /\ in_flight[c].form.email = T_A_B_com_padded
        /\ in_flight[b].pc = "returned" /\ in_flight[b].outcome = "success"
        /\ ~in_flight[b].session.isNone
        /\ in_flight[c].pc = "raised" /\ in_flight[c].session = NoneInt
        /\ Cardinality({i \in 1..Len(users) : users[i].email = T_a_b_com}) = 1

====
